---------------------------- MODULE Spec2Model ----------------------------
(***************************************************************************)
(* A model of backend/main.py: the seven POST handlers of the AI Toolbox   *)
(* API, their prompt composition, and the adapters for the video           *)
(* transcript service, the video metadata service, the chat completion     *)
(* endpoint and the issue tracker.                                         *)
(*                                                                         *)
(* Text is modelled as a sequence of strings.  URLs and transcripts are    *)
(* sequences of one-character strings, so that the regular expressions and *)
(* the slice [:4000] act on characters; the fixed fragments of a prompt or *)
(* of an error message are one string each.                                *)
(***************************************************************************)
EXTENDS Integers, Sequences, FiniteSets, TLC

(***************************************************************************)
(* Bounds of the model.                                                    *)
(***************************************************************************)
\* transcripts are drawn with lengths up to max_tokens + MaxExtra
MaxExtra == 1
\* video identifiers in the drawn URLs have 1..MaxIdLen characters
MaxIdLen == 2
\* number of trailing slashes drawn on jira_url
MaxSlashes == 2

(***************************************************************************)
(* Text helpers.                                                           *)
(***************************************************************************)
Min(a, b) == IF a <= b THEN a ELSE b

\* Python's s[:n] for n >= 0
Take(s, n) == SubSeq(s, 1, Min(Len(s), n))

\* Python's `sub in s` on token sequences
Contains(s, sub) ==
    \E i \in 0..(Len(s) - Len(sub)) : SubSeq(s, i + 1, i + Len(sub)) = sub

\* Optional[str]: None, or a (possibly empty) text
None == [present |-> FALSE, val |-> <<>>]
Some(t) == [present |-> TRUE, val |-> t]
\* Python truthiness of an Optional[str]: None and "" are falsy
Truthy(o) == o.present /\ o.val # <<>>

\* dict.get(key, default)
DictGet(table, key, default) ==
    IF key \in DOMAIN table THEN table[key] ELSE default

(***************************************************************************)
(* extract_youtube_id: three regular expressions tried in list order with  *)
(* re.search (leftmost match; alternatives in order; the group is a        *)
(* greedy, non-empty run of characters outside the excluded class).        *)
(***************************************************************************)
LitWatch == <<"y","o","u","t","u","b","e",".","c","o","m","/","w","a","t","c","h","?","v","=">>
LitShort == <<"y","o","u","t","u",".","b","e","/">>
LitEmbed == <<"y","o","u","t","u","b","e",".","c","o","m","/","e","m","b","e","d","/">>
LitV     == <<"y","o","u","t","u","b","e",".","c","o","m","/","v","/">>

\* the same patterns with the embed and /v/ shapes tried first
patterns_reordered ==
    << [alts |-> <<LitEmbed>>,           excl |-> {"/", "?"}],
       [alts |-> <<LitV>>,               excl |-> {"/", "?"}],
       [alts |-> <<LitWatch, LitShort>>, excl |-> {"&", "?"}] >>

patterns ==
    << [alts |-> <<LitWatch, LitShort>>, excl |-> {"&", "?"}],
       [alts |-> <<LitEmbed>>,           excl |-> {"/", "?"}],
       [alts |-> <<LitV>>,               excl |-> {"/", "?"}] >>

\* the literal lit occurs in url at position p
LitAt(lit, url, p) ==
    /\ p + Len(lit) - 1 <= Len(url)
    /\ SubSeq(url, p, p + Len(lit) - 1) = lit

\* the greedy run of characters not in excl that starts at position s
RunFrom(url, s, excl) ==
    LET stops == {e \in s..Len(url) : url[e] \in excl}
        end   == IF stops = {} THEN Len(url) + 1
                 ELSE CHOOSE e \in stops : \A f \in stops : e <= f
    IN  SubSeq(url, s, end - 1)

\* alternative lit of a pattern matches at p: the literal, then a group of >= 1
AltAt(lit, excl, url, p) ==
    /\ LitAt(lit, url, p)
    /\ RunFrom(url, p + Len(lit), excl) # <<>>

\* re.search(pattern, url): no match, or group(1) of the leftmost match
ReSearch(pat, url) ==
    LET hits == {p \in 1..Len(url) :
                    \E a \in 1..Len(pat.alts) : AltAt(pat.alts[a], pat.excl, url, p)}
    IN  IF hits = {} THEN [found |-> FALSE, id |-> <<>>]
        ELSE LET p == CHOOSE q \in hits : \A r \in hits : q <= r
                 a == CHOOSE b \in 1..Len(pat.alts) :
                        /\ AltAt(pat.alts[b], pat.excl, url, p)
                        /\ \A c \in 1..(b - 1) : ~AltAt(pat.alts[c], pat.excl, url, p)
             IN  [found |-> TRUE,
                  id |-> RunFrom(url, p + Len(pat.alts[a]), pat.excl)]

\* the for loop over a list of patterns: the first pattern that matches returns
RECURSIVE FirstMatch(_, _, _)
FirstMatch(pats, i, url) ==
    IF i > Len(pats) THEN [found |-> FALSE, id |-> <<>>]
    ELSE LET m == ReSearch(pats[i], url)
         IN  IF m.found THEN m ELSE FirstMatch(pats, i + 1, url)

extract_youtube_id(url) == FirstMatch(patterns, 1, url)

(***************************************************************************)
(* Exceptions and their str().  An exception is a record; Raise and Return *)
(* are the two ways a function ends.                                       *)
(***************************************************************************)
Return(v) == [ok |-> TRUE, val |-> v]
Raise(e)  == [ok |-> FALSE, err |-> e]

\* a plain exception built from one message: str(e) is the message
Exc(cls, msg) == [cls |-> cls, msg |-> msg]

\* fastapi.HTTPException(status_code, detail): str(e) is "<status>: <detail>"
\* (starlette.exceptions.HTTPException.__str__)
HTTPException(status_code, detail) ==
    [cls |-> "HTTPException", status_code |-> status_code, detail |-> detail,
     msg |-> <<ToString(status_code), ": ">> \o detail]

\* str(e)
Str(e) == e.msg

(***************************************************************************)
(* get_youtube_transcript: `out` is what YouTubeTranscriptApi.get_transcript*)
(* does: it returns the list of caption segments or raises.                *)
(***************************************************************************)
RECURSIVE JoinFrom(_, _, _)
\* sep.join(parts[i:])
JoinFrom(sep, parts, i) ==
    IF i > Len(parts) THEN <<>>
    ELSE IF i = Len(parts) THEN parts[i]
    ELSE parts[i] \o sep \o JoinFrom(sep, parts, i + 1)

Join(sep, parts) == JoinFrom(sep, parts, 1)

\* the languages argument of the transcript call
TranscriptLanguages(language) ==
    IF language # "english" THEN <<language>> ELSE <<"en">>

\* a transcript fetch whose failure is swallowed like that of the metadata fetch
get_youtube_transcript_swallowing(out) ==
    IF out.ok THEN Return(Join(<<" ">>, out.val)) ELSE Return(<<>>)

get_youtube_transcript(out) ==
    IF out.ok
    THEN Return(Join(<<" ">>, out.val))
    ELSE Raise(Exc("Exception", <<"Failed to get transcript: ">> \o Str(out.err)))

(***************************************************************************)
(* get_video_details: `out` is what pytube does while the six properties   *)
(* are read: it yields them or raises.  Every failure gives the minimal    *)
(* details.                                                                *)
(***************************************************************************)
\* a metadata fetch whose failure propagates
get_video_details_raising(out) ==
    IF out.ok THEN Return(out.val) ELSE Raise(out.err)

get_video_details(out) ==
    IF out.ok
    THEN Return([title |-> out.val.title, author |-> out.val.author,
                 length |-> out.val.length, views |-> out.val.views,
                 publish_date |-> out.val.publish_date,
                 thumbnail_url |-> out.val.thumbnail_url])
    ELSE Return([title |-> "YouTube Video", author |-> "Unknown"])

(***************************************************************************)
(* The chat completion call.  `out` is what openai.chat.completions.create *)
(* does: it raises, or returns a response whose choices are read.          *)
(***************************************************************************)
CompletionCall(system, prompt, max_out, temperature) ==
    [svc |-> "completion", model |-> "gpt-3.5-turbo", system |-> system,
     prompt |-> prompt, max_tokens |-> max_out, temperature |-> temperature]

\* response.choices[0].message.content
FirstChoice(out) ==
    IF ~out.ok THEN Raise(out.err)
    ELSE IF out.val = <<>>
         THEN Raise(Exc("IndexError", <<"list index out of range">>))
         ELSE Return(out.val[1])

(***************************************************************************)
(* generate_content_from_transcript                                        *)
(***************************************************************************)
max_tokens == 4000

\* video_details.get('title', 'YouTube Video')
TitleOf(video_details) == DictGet(video_details, "title", "YouTube Video")

\* the branches with the custom branch taken whenever output_type is "custom"
TranscriptLeadUnchecked(output_type, video_details, custom_prompt) ==
    LET title == DictGet(video_details, "title", "YouTube Video") IN
    IF output_type = "summary" THEN
        <<"Summarize the main points of this YouTube video titled '", title,
          "'. Transcript:\n\n">>
    ELSE IF output_type = "notes" THEN
        <<"Create detailed notes in bullet point format from this YouTube video titled '",
          title, "'. Transcript:\n\n">>
    ELSE IF output_type = "explanation" THEN
        <<"Explain the content of this YouTube video titled '", title,
          "' in simple terms that are easy to understand. Transcript:\n\n">>
    ELSE IF output_type = "questions" THEN
        <<"Generate important questions and answers based on the content of this YouTube video titled '",
          title, "'. Transcript:\n\n">>
    ELSE IF output_type = "custom" THEN
        custom_prompt.val \o <<"\n\nVideo Title: '", title, "'\nTranscript:\n\n">>
    ELSE
        <<"Analyze the content of this YouTube video titled '", title,
          "'. Transcript:\n\n">>

\* the part of the prompt before the transcript
TranscriptLead(output_type, video_details, custom_prompt) ==
    LET title == TitleOf(video_details) IN
    IF output_type = "summary" THEN
        <<"Summarize the main points of this YouTube video titled '", title,
          "'. Transcript:\n\n">>
    ELSE IF output_type = "notes" THEN
        <<"Create detailed notes in bullet point format from this YouTube video titled '",
          title, "'. Transcript:\n\n">>
    ELSE IF output_type = "explanation" THEN
        <<"Explain the content of this YouTube video titled '", title,
          "' in simple terms that are easy to understand. Transcript:\n\n">>
    ELSE IF output_type = "questions" THEN
        <<"Generate important questions and answers based on the content of this YouTube video titled '",
          title, "'. Transcript:\n\n">>
    ELSE IF output_type = "custom" /\ Truthy(custom_prompt) THEN
        custom_prompt.val \o <<"\n\nVideo Title: '", title, "'\nTranscript:\n\n">>
    ELSE
        <<"Analyze the content of this YouTube video titled '", title,
          "'. Transcript:\n\n">>

\* a slice that keeps one character more
TruncateOffByOne(transcript) == Take(transcript, max_tokens + 1)

\* transcript = transcript[:max_tokens]
Truncate(transcript) == Take(transcript, max_tokens)

TranscriptPrompt(transcript, output_type, video_details, custom_prompt) ==
    TranscriptLead(output_type, video_details, custom_prompt) \o Truncate(transcript)

TranscriptCall(transcript, output_type, video_details, custom_prompt) ==
    CompletionCall("You are an expert at analyzing and summarizing content.",
                   TranscriptPrompt(transcript, output_type, video_details, custom_prompt),
                   1000, "0.7")

(***************************************************************************)
(* generate_social_media_post                                              *)
(***************************************************************************)
platform_guides ==
    [linkedin  |-> "professional post for LinkedIn that includes bullet points, some emojis, and relevant hashtags",
     twitter   |-> "concise tweet for X (Twitter) within 280 characters, with relevant hashtags",
     youtube   |-> "engaging community post for YouTube that encourages interaction",
     instagram |-> "visually descriptive caption for Instagram with appropriate emojis and hashtags"]

style_guides ==
    ("professional"      :> "in a formal, business-oriented tone" @@
     "casual"            :> "in a friendly, conversational approach" @@
     "inspirational"     :> "in a motivational and uplifting style" @@
     "educational"       :> "in an informative and teaching-focused manner" @@
     "humorous"          :> "with light-hearted appropriate humor" @@
     "thought-provoking" :> "that encourages discussion and reflection")

PlatformGuide(platform) ==
    DictGet(platform_guides, platform, platform_guides["linkedin"])

StyleGuide(writing_style) ==
    DictGet(style_guides, writing_style, style_guides["professional"])

SocialPrompt(topic, platform, writing_style, custom_instructions) ==
    <<"Create a ", PlatformGuide(platform), " ", StyleGuide(writing_style),
      " about the topic: ">> \o topic \o <<".">>
    \o (IF Truthy(custom_instructions)
        THEN <<"\n\nAdditional instructions: ">> \o custom_instructions.val
        ELSE <<>>)

SocialCall(topic, platform, writing_style, custom_instructions) ==
    CompletionCall("You are an expert at creating engaging social media content.",
                   SocialPrompt(topic, platform, writing_style, custom_instructions),
                   800, "0.8")

(***************************************************************************)
(* generate_comment_for_content                                            *)
(***************************************************************************)
CommentPrompt(content, platform, tone, custom_instructions) ==
    <<"Generate a thoughtful ", tone, " comment for the following ", platform,
      " content:\n\n">> \o content
    \o (IF Truthy(custom_instructions)
        THEN <<"\n\nAdditional instructions: ">> \o custom_instructions.val
        ELSE <<>>)

CommentCall(content, platform, tone, custom_instructions) ==
    CompletionCall("You are an expert at creating engaging and authentic comments.",
                   CommentPrompt(content, platform, tone, custom_instructions),
                   300, "0.7")

(***************************************************************************)
(* generate_jira_ticket_content                                            *)
(***************************************************************************)
ticket_prompts ==
    [epic        |-> "Create a comprehensive Epic description that includes business value, scope, and acceptance criteria",
     story       |-> "Create a detailed User Story following the format: 'As a [user], I want [goal] so that [benefit]', include acceptance criteria and definition of done",
     task        |-> "Create a clear Task description with specific steps, requirements, and deliverables",
     bug         |-> "Create a detailed Bug report with steps to reproduce, expected vs actual behavior, and environment details",
     improvement |-> "Create an Improvement description explaining the current state, proposed enhancement, and expected benefits",
     feature     |-> "Create a Feature description with user requirements, functional specifications, and acceptance criteria"]

TicketPrompt(ticket_type) ==
    DictGet(ticket_prompts, ticket_type, ticket_prompts["task"])

JiraContentPrompt(subject, rough_description, ticket_type, priority) ==
    <<"\n    ", TicketPrompt(ticket_type), " for a Jira ticket.\n    \n    Subject: ">>
    \o subject \o <<"\n    Priority: ", priority, "\n    Rough Description: ">>
    \o rough_description
    \o <<"\n    \n    Format the response professionally with clear sections and use markdown formatting where appropriate.\n    Include relevant sections like:\n    - Description/Summary\n    - Acceptance Criteria (where applicable)\n    - Steps to Reproduce (for bugs)\n    - Requirements\n    - Notes/Additional Information\n    \n    Make it comprehensive but concise, suitable for a development team.\n    ">>

JiraContentCall(subject, rough_description, ticket_type, priority) ==
    CompletionCall("You are an expert at creating professional Jira tickets and project management documentation.",
                   JiraContentPrompt(subject, rough_description, ticket_type, priority),
                   1200, "0.7")

(***************************************************************************)
(* generate_communication_content                                          *)
(***************************************************************************)
content_prompts ==
    ("meeting-agenda"      :> "Create a professional meeting agenda" @@
     "meeting-description" :> "Create a comprehensive meeting description" @@
     "slack-message"       :> "Create an engaging Slack message")

tone_guidelines ==
    [professional  |-> "using formal business language and structure",
     casual        |-> "using friendly, relaxed language",
     friendly      |-> "using warm, approachable language",
     urgent        |-> "using direct, action-oriented language that conveys importance",
     informative   |-> "using clear, educational language that explains well",
     collaborative |-> "using inclusive language that encourages participation"]

style_guidelines ==
    ("concise"         :> "Keep it brief and to the point" @@
     "detailed"        :> "Provide comprehensive information with thorough explanations" @@
     "bullet-points"   :> "Use bullet points and structured formatting" @@
     "structured"      :> "Use clear sections and organized formatting" @@
     "action-oriented" :> "Focus on actionable items and next steps")

BasePrompt(content_type) ==
    DictGet(content_prompts, content_type, "Create professional communication content")

ToneGuide(tone) ==
    DictGet(tone_guidelines, tone, "using appropriate professional language")

CommStyleGuide(style) ==
    DictGet(style_guidelines, style, "with clear formatting")

\* the instruction appended for the content type, if any
TypeInstruction(content_type) ==
    IF content_type = "meeting-agenda" THEN
        <<"\nInclude: Meeting objectives, agenda items with time allocations, attendees/roles, and action items. Format it professionally.">>
    ELSE IF content_type = "meeting-description" THEN
        <<"\nInclude: Meeting purpose, expected outcomes, key discussion points, and participant expectations.">>
    ELSE IF content_type = "slack-message" THEN
        <<"\nMake it appropriate for team communication, engaging, and clear. Include relevant emojis if the tone allows.">>
    ELSE <<>>

CommunicationPrompt(content_type, subject, details, tone, style, additional_info) ==
    <<BasePrompt(content_type), " ", ToneGuide(tone), " and ", CommStyleGuide(style),
      ".\n\n", "Subject/Title: ">> \o subject \o <<"\n">>
    \o (IF Truthy(details) THEN <<"Context/Details: ">> \o details.val \o <<"\n">>
        ELSE <<>>)
    \o TypeInstruction(content_type)
    \o (IF Truthy(additional_info)
        THEN <<"\nAdditional Requirements: ">> \o additional_info.val
        ELSE <<>>)

CommunicationCall(content_type, subject, details, tone, style, additional_info) ==
    CompletionCall("You are an expert at creating professional business communication content.",
                   CommunicationPrompt(content_type, subject, details, tone, style,
                                       additional_info),
                   1000, "0.7")

(***************************************************************************)
(* create_jira_ticket_in_instance.  `out` is what requests.post does: it   *)
(* raises a RequestException or returns a response with a status code and  *)
(* a body.  A body is empty, a JSON object, a JSON array or text that is   *)
(* not JSON.                                                               *)
(***************************************************************************)
jira_issue_types ==
    [epic |-> "Epic", story |-> "Story", task |-> "Task", bug |-> "Bug",
     improvement |-> "Improvement", feature |-> "New Feature"]

\* a lookup that raises nothing but falls back to another entry
IssueTypeWrongDefault(ticket_type) == DictGet(jira_issue_types, ticket_type, "Story")

IssueType(ticket_type) == DictGet(jira_issue_types, ticket_type, "Task")

RECURSIVE RStrip(_, _)
\* s.rstrip(ch)
RStrip(s, ch) ==
    IF s # <<>> /\ s[Len(s)] = ch THEN RStrip(SubSeq(s, 1, Len(s) - 1), ch) ELSE s

\* a character outside ASCII
NonAscii == "<U+00F6>"

\* auth_string.encode('ascii') succeeds
IsAscii(s) == \A i \in 1..Len(s) : s[i] # NonAscii

AuthString(settings) == settings.username \o <<":">> \o settings.api_token

\* the Authorization header: Basic, then the base64 text of the auth string
AuthHeader(settings) == [scheme |-> "Basic", b64 |-> AuthString(settings)]

\* the API endpoint
IssueEndpoint(settings) == RStrip(settings.jira_url, "/") \o <<"/rest/api/3/issue">>

\* a ticket URL built from the project key instead of the issue key
TicketUrlOfProject(settings, ticket_key) ==
    RStrip(settings.jira_url, "/") \o <<"/browse/", settings.project_key>>

\* the URL of a created ticket
TicketUrl(settings, ticket_key) ==
    RStrip(settings.jira_url, "/") \o <<"/browse/", ticket_key>>

IssueData(subject, content, ticket_type, priority, settings) ==
    [project |-> settings.project_key, summary |-> subject, description |-> content,
     issuetype |-> IssueType(ticket_type), priority |-> priority]

JiraCall(subject, content, ticket_type, priority, settings) ==
    [svc |-> "jira", url |-> IssueEndpoint(settings),
     authorization |-> AuthHeader(settings),
     data |-> IssueData(subject, content, ticket_type, priority, settings)]

\* the classes of requests.exceptions.RequestException; response.json() raises
\* requests.exceptions.JSONDecodeError, which is one of them
RequestExceptions == {"ConnectionError", "Timeout", "JSONDecodeError"}

\* response.json()
ResponseJson(body) ==
    IF body.kind \in {"object", "array"} THEN Return(body)
    ELSE Raise(Exc("JSONDecodeError", <<"Expecting value: line 1 column 1 (char 0)">>))

\* response_data.get('key') formatted into the URL; a list has no get
JsonGetKey(json) ==
    IF json.kind = "object"
    THEN Return(DictGet(json.fields, "key", "None"))
    ELSE Raise(Exc("AttributeError", <<"'list' object has no attribute 'get'">>))

\* the body of the try block, after requests.post
JiraTry(settings, out) ==
    IF ~out.ok THEN Raise(out.err)
    ELSE LET response == out.val IN
         IF response.status_code = 201 THEN
            LET response_data == ResponseJson(response.body) IN
            IF ~response_data.ok THEN response_data
            ELSE LET ticket_key == JsonGetKey(response_data.val) IN
                 IF ~ticket_key.ok THEN ticket_key
                 ELSE Return(TicketUrl(settings, ticket_key.val))
         ELSE
            LET error_detail ==
                    IF response.body.kind # "empty" THEN ResponseJson(response.body)
                    ELSE Return([kind |-> "object", repr |-> "{'error': 'Unknown error'}"])
            IN  IF ~error_detail.ok THEN error_detail
                ELSE Raise(Exc("Exception",
                               <<"Failed to create Jira ticket: ",
                                 ToString(response.status_code), " - ",
                                 error_detail.val.repr>>))

\* except requests.exceptions.RequestException as e
JiraExcept(r) ==
    IF ~r.ok /\ r.err.cls \in RequestExceptions
    THEN Raise(Exc("Exception", <<"Failed to connect to Jira: ">> \o Str(r.err)))
    ELSE r

\* the call is made once the auth string has been encoded
JiraPosts(settings) == IsAscii(AuthString(settings))

create_jira_ticket_in_instance(settings, out) ==
    IF ~JiraPosts(settings)
    THEN Raise(Exc("UnicodeEncodeError",
                   <<"'ascii' codec can't encode character: ordinal not in range(128)">>))
    ELSE JiraExcept(JiraTry(settings, out))

(***************************************************************************)
(* The inputs: requests, and what the external services answer.            *)
(***************************************************************************)
Https   == <<"h","t","t","p","s",":","/","/">>
Www     == <<"w","w","w",".">>
Example == <<"e","x","a","m","p","l","e",".","c","o","m">>
LitShorts == <<"y","o","u","t","u","b","e",".","c","o","m","/","s","h","o","r","t","s","/">>

IdChars == {"a", "1"}

\* the texts over a set of characters with lengths 0..n
TextsUpTo(chars, n) == UNION {[1..k -> chars] : k \in 0..n}

UrlTails ==
    { <<>>, <<"&","t","=","5">>, <<"?","t","=","5">>, <<"/","x">>,
      <<"?","u","=">> \o LitShort \o <<"z">>,
      <<"&","u","=">> \o LitEmbed \o <<"z">> }

\* URLs of every accepted shape and of shapes that are not accepted
AllUrls ==
    { pre \o shape \o id \o tail :
        pre \in {Https, Https \o Www},
        shape \in {LitWatch, LitShort, LitEmbed, LitV, LitShorts, Example \o <<"/">>},
        id \in TextsUpTo(IdChars, MaxIdLen),
        tail \in UrlTails }

SampleId == <<"a", "1">>

\* the URLs the full request flow is run on
MainUrls ==
    { Https \o Www \o LitWatch \o SampleId, Https \o LitShort \o SampleId,
      Https \o Www \o LitEmbed \o SampleId, Https \o Www \o LitV \o SampleId,
      Https \o Example, Https \o Www \o LitShorts \o SampleId }

TChars == <<"a", "b", " ">>

\* a text of n characters
MkText(n, k) == [i \in 1..n |-> TChars[((i * k) % 3) + 1]]

LongLens == (max_tokens - 1)..(max_tokens + MaxExtra)

Transcripts == {MkText(n, 1) : n \in {0, 2} \cup LongLens} \cup {MkText(3, 2)}

\* what the transcript service returns: lists of caption segments
SegmentLists ==
    { <<>>, <<MkText(2, 1), MkText(1, 2)>> }
    \cup { <<MkText(max_tokens \div 2, 1), MkText(n - (max_tokens \div 2) - 1, 2)>> :
             n \in {max_tokens + MaxExtra} }

OutputTypes == {"summary", "notes", "explanation", "questions", "custom", "other", ""}
Languages == {"english", "es"}
Optionals == {None, Some(<<>>), Some(<<"Focus on the key dates">>)}

Platforms == DOMAIN platform_guides \cup {"tiktok"}
WritingStyles == DOMAIN style_guides \cup {"Professional"}
CommentTones == {"supportive", "critical"}
TicketTypes == DOMAIN ticket_prompts \cup {"Bug", "chore"}
Priorities == {"Medium", "High"}
ContentTypes == DOMAIN content_prompts \cup {"email"}
Tones == DOMAIN tone_guidelines \cup {"angry"}
Styles == DOMAIN style_guidelines \cup {"fancy"}

JiraHost == <<"https://x.atlassian.net">>

RECURSIVE Slashes(_)
Slashes(n) == IF n = 0 THEN <<>> ELSE <<"/">> \o Slashes(n - 1)

JiraUrls ==
    {JiraHost \o Slashes(n) : n \in 0..MaxSlashes}
    \cup {JiraHost \o <<"/", "jira">>}

JiraSettings ==
    [jira_url : JiraUrls,
     username : {<<"bob@x.io">>, <<"bj", NonAscii, "rn">>},
     api_token : {<<"tok">>},
     project_key : {"PROJ"}]

SummarizeRequests ==
    [endpoint : {"/api/youtube/summarize"}, video_url : MainUrls,
     output_type : OutputTypes, language : Languages,
     custom_prompt : {None, Some(<<"Focus on the key dates">>)}]

UrlRequests ==
    [endpoint : {"/api/youtube/summarize"}, video_url : AllUrls,
     output_type : {"summary"}, language : {"english"}, custom_prompt : {None}]

AnalyzeRequests ==
    [endpoint : {"/api/transcript/analyze"}, transcript : Transcripts,
     output_type : OutputTypes, language : {"english"}, custom_prompt : Optionals]

SocialRequests ==
    [endpoint : {"/api/social/generate"}, topic : {<<"AI safety">>},
     platform : Platforms, writing_style : WritingStyles,
     custom_instructions : Optionals]

CommentRequests ==
    [endpoint : {"/api/comments/generate"}, content : {<<"Great launch today">>},
     platform : {"linkedin", "tiktok"}, tone : CommentTones,
     custom_instructions : Optionals]

JiraGenerateRequests ==
    [endpoint : {"/api/jira/generate"}, subject : {<<"Login fails">>},
     rough_description : {<<"500 on submit">>}, ticket_type : TicketTypes,
     priority : Priorities]

JiraCreateRequests ==
    [endpoint : {"/api/jira/create"}, subject : {<<"Login fails">>},
     content : {<<"Steps to reproduce">>}, ticket_type : TicketTypes,
     priority : {"High"}, jira_settings : JiraSettings]

CommunicationRequests ==
    [endpoint : {"/api/communication/generate"}, content_type : ContentTypes,
     subject : {<<"Quarterly sync">>},
     details : {None, Some(<<"Room 4, 10:00">>)}, tone : Tones,
     style : Styles, additional_info : {None, Some(<<"Keep under one page">>)}]

Requests ==
    SummarizeRequests \cup AnalyzeRequests \cup SocialRequests \cup CommentRequests
    \cup JiraGenerateRequests \cup JiraCreateRequests \cup CommunicationRequests

\* openai.chat.completions.create: the contents of the returned choices, or an error
CompletionOutcomes ==
    { Return(<<"generated text">>), Return(<<"first", "second">>), Return(<<>>),
      Raise(Exc("RateLimitError", <<"Rate limit reached for gpt-3.5-turbo">>)),
      Raise(Exc("APIConnectionError", <<"Connection error.">>)) }

\* YouTubeTranscriptApi.get_transcript: the caption segments, or an error
TranscriptOutcomes ==
    { Return(segs) : segs \in SegmentLists }
    \cup { Raise(Exc("TranscriptsDisabled", <<"Subtitles are disabled for this video">>)),
           Raise(Exc("NoTranscriptFound", <<"No transcripts were found">>)) }

\* pytube: the properties of the video, or an error while reading them
MetadataOutcomes ==
    { Return([title |-> "Intro to TLA+", author |-> "L. L.", length |-> 613,
              views |-> 1024, publish_date |-> "2024-01-02 00:00:00",
              thumbnail_url |-> "https://i.ytimg.com/vi/a1/hq.jpg"]),
      Raise(Exc("VideoUnavailable", <<"a1 is unavailable">>)) }

JsonBodies ==
    { [kind |-> "empty", repr |-> "", fields |-> <<>>],
      [kind |-> "object", repr |-> "{'key': 'PROJ-42'}", fields |-> [key |-> "PROJ-42"]],
      [kind |-> "object", repr |-> "{'key': 'PROJ-7', 'id': '10007'}",
       fields |-> [key |-> "PROJ-7", id |-> "10007"]],
      [kind |-> "object", repr |-> "{'errorMessages': ['No permission']}",
       fields |-> [errorMessages |-> "['No permission']"]],
      [kind |-> "array", repr |-> "[]", fields |-> <<>>],
      [kind |-> "text", repr |-> "<html>Bad Gateway</html>", fields |-> <<>>] }

StatusCodes == {200, 201, 400, 401, 502}

\* requests.post: a response, or a transport error
JiraOutcomes ==
    { Return([status_code |-> st, body |-> b]) : st \in StatusCodes, b \in JsonBodies }
    \cup { Raise(Exc("ConnectionError", <<"Connection refused">>)),
           Raise(Exc("Timeout", <<"Read timed out.">>)) }

(***************************************************************************)
(* The state: one request at a time is followed from its arrival to its    *)
(* response (requests share no state).                                     *)
(***************************************************************************)
VARIABLES
    pc,             \* "idle", the handler's position, or "done"
    request,        \* the request being handled
    video_id,       \* summarize_youtube: the result of extract_youtube_id
    video_details,  \* summarize_youtube: the result of get_video_details
    transcript,     \* summarize_youtube: the result of get_youtube_transcript
    calls,          \* the outbound calls made for this request, in order
    responses       \* the responses sent for this request

vars == <<pc, request, video_id, video_details, transcript, calls, responses>>

NoRequest == [endpoint |-> "none"]
NoMatch == [found |-> FALSE, id |-> <<>>]

Init ==
    /\ pc = "idle"
    /\ request = NoRequest
    /\ video_id = NoMatch
    /\ video_details = <<>>
    /\ transcript = <<>>
    /\ calls = <<>>
    /\ responses = <<>>

\* what came back from an outbound call: the error, or the value returned (of a
\* transcript fetch, the number of caption segments)
Answer(call, out) ==
    IF ~out.ok THEN out.err
    ELSE IF call.svc = "transcript" THEN Len(out.val) ELSE out.val

\* an outbound call as it is logged: the call, whether it succeeded, its answer
Logged(call, out) ==
    [f \in DOMAIN call \cup {"ok", "answer"} |->
        IF f = "ok" THEN out.ok ELSE IF f = "answer" THEN Answer(call, out) ELSE call[f]]

\* the outbound calls one invocation of a collaborator makes
OutboundRetrying(call, out) ==
    IF out.ok THEN <<Logged(call, out)>> ELSE <<Logged(call, out), Logged(call, out)>>

Outbound(call, out) == <<Logged(call, out)>>

\* an except clause that hides the failure's text
ErrorResponseGeneric(e) == [status_code |-> 500, detail |-> <<"Internal Server Error">>]

\* except Exception as e: raise HTTPException(status_code=500, detail=str(e))
ErrorResponse(e) == [status_code |-> 500, detail |-> Str(e)]

\* the end of a handler: the returned body, or the except clause
HandlerResponse(r, body) ==
    IF r.ok THEN [status_code |-> 200, body |-> body] ELSE ErrorResponse(r.err)

\* the framework hands a request to its handler
Receive(r) ==
    /\ pc = "idle"
    /\ request' = r
    /\ pc' = IF r.endpoint = "/api/youtube/summarize" THEN "extract" ELSE "handler"
    /\ UNCHANGED <<video_id, video_details, transcript, calls, responses>>

At(endpoint, position) == pc = position /\ request.endpoint = endpoint

(***************************************************************************)
(* summarize_youtube, statement by statement.                              *)
(***************************************************************************)
\* video_id = extract_youtube_id(...); if not video_id: raise HTTPException(400)
SummarizeExtract ==
    /\ At("/api/youtube/summarize", "extract")
    /\ LET id == extract_youtube_id(request.video_url) IN
       IF ~id.found \/ id.id = <<>>
       THEN /\ responses' = Append(responses,
                  ErrorResponse(HTTPException(400, <<"Invalid YouTube URL">>)))
            /\ pc' = "done"
            /\ UNCHANGED video_id
       ELSE /\ video_id' = id
            /\ pc' = "details"
            /\ UNCHANGED responses
    /\ UNCHANGED <<request, video_details, transcript, calls>>

MetadataCall(id) ==
    [svc |-> "metadata", url |-> Https \o Www \o LitWatch \o id]

\* video_details = get_video_details(video_id)
SummarizeDetails ==
    /\ At("/api/youtube/summarize", "details")
    /\ \E out \in MetadataOutcomes :
          LET r == get_video_details(out) IN
          /\ calls' = calls \o Outbound(MetadataCall(video_id.id), out)
          /\ IF r.ok
             THEN /\ video_details' = r.val
                  /\ pc' = "transcript"
                  /\ UNCHANGED responses
             ELSE /\ responses' = Append(responses, ErrorResponse(r.err))
                  /\ pc' = "done"
                  /\ UNCHANGED video_details
    /\ UNCHANGED <<request, video_id, transcript>>

TranscriptFetch(id, language) ==
    [svc |-> "transcript", video_id |-> id, languages |-> TranscriptLanguages(language)]

\* transcript = get_youtube_transcript(video_id, request.language)
SummarizeTranscript ==
    /\ At("/api/youtube/summarize", "transcript")
    /\ \E out \in TranscriptOutcomes :
          LET r == get_youtube_transcript(out) IN
          /\ calls' = calls \o Outbound(TranscriptFetch(video_id.id, request.language), out)
          /\ IF r.ok
             THEN /\ transcript' = r.val
                  /\ pc' = "generate"
                  /\ UNCHANGED responses
             ELSE /\ responses' = Append(responses, ErrorResponse(r.err))
                  /\ pc' = "done"
                  /\ UNCHANGED transcript
    /\ UNCHANGED <<request, video_id, video_details>>

\* result = generate_content_from_transcript(...); return {...}
SummarizeGenerate ==
    /\ At("/api/youtube/summarize", "generate")
    /\ \E out \in CompletionOutcomes :
          LET call == TranscriptCall(transcript, request.output_type, video_details,
                                     request.custom_prompt)
              r == FirstChoice(out)
          IN  /\ calls' = calls \o Outbound(call, out)
              /\ responses' = Append(responses,
                     HandlerResponse(r, [result |-> r.val,
                                         video_details |-> video_details]))
    /\ pc' = "done"
    /\ UNCHANGED <<request, video_id, video_details, transcript>>

(***************************************************************************)
(* The handlers that make one completion call.                             *)
(***************************************************************************)
\* a handler that composes `call`, makes it and returns {"result": ...}
GenerateHandler(endpoint, call) ==
    /\ At(endpoint, "handler")
    /\ \E out \in CompletionOutcomes :
          LET r == FirstChoice(out) IN
          /\ calls' = calls \o Outbound(call, out)
          /\ responses' = Append(responses, HandlerResponse(r, [result |-> r.val]))
    /\ pc' = "done"
    /\ UNCHANGED <<request, video_id, video_details, transcript>>

analyze_transcript ==
    GenerateHandler("/api/transcript/analyze",
        TranscriptCall(request.transcript, request.output_type,
                       [title |-> "Custom Transcript"], request.custom_prompt))

generate_social ==
    GenerateHandler("/api/social/generate",
        SocialCall(request.topic, request.platform, request.writing_style,
                   request.custom_instructions))

generate_comment ==
    GenerateHandler("/api/comments/generate",
        CommentCall(request.content, request.platform, request.tone,
                    request.custom_instructions))

generate_jira_content ==
    GenerateHandler("/api/jira/generate",
        JiraContentCall(request.subject, request.rough_description,
                        request.ticket_type, request.priority))

generate_communication ==
    GenerateHandler("/api/communication/generate",
        CommunicationCall(request.content_type, request.subject, request.details,
                          request.tone, request.style, request.additional_info))

(***************************************************************************)
(* create_jira_ticket                                                      *)
(***************************************************************************)
create_jira_ticket ==
    /\ At("/api/jira/create", "handler")
    /\ \E out \in JiraOutcomes :
          LET settings == request.jira_settings
              call == JiraCall(request.subject, request.content, request.ticket_type,
                               request.priority, settings)
              r == create_jira_ticket_in_instance(settings, out)
          IN  /\ calls' = IF JiraPosts(settings) THEN calls \o Outbound(call, out)
                          ELSE calls
              /\ responses' = Append(responses,
                     HandlerResponse(r, [ticket_url |-> r.val,
                                         message |-> "Jira ticket created successfully"]))
    /\ pc' = "done"
    /\ UNCHANGED <<request, video_id, video_details, transcript>>

\* the response is sent; the next request starts from nothing
Finish ==
    /\ pc = "done"
    /\ pc' = "idle"
    /\ request' = NoRequest
    /\ video_id' = NoMatch
    /\ video_details' = <<>>
    /\ transcript' = <<>>
    /\ calls' = <<>>
    /\ responses' = <<>>

Handlers ==
    \/ SummarizeExtract
    \/ SummarizeDetails
    \/ SummarizeTranscript
    \/ SummarizeGenerate
    \/ analyze_transcript
    \/ generate_social
    \/ generate_comment
    \/ generate_jira_content
    \/ generate_communication
    \/ create_jira_ticket
    \/ Finish

Next == (\E r \in Requests : Receive(r)) \/ Handlers

Spec == Init /\ [][Next]_vars

\* URL resolution alone, over every drawn URL
NextUrl == (\E r \in UrlRequests : Receive(r)) \/ SummarizeExtract \/ Finish

SpecUrl == Init /\ [][NextUrl]_vars

(***************************************************************************)
(* Properties.                                                             *)
(***************************************************************************)
Summarizing == request.endpoint = "/api/youtube/summarize"
CreatingTicket == request.endpoint = "/api/jira/create"
Done == pc = "done"

\* the positions of the logged calls to a service
CallsTo(svc) == {i \in 1..Len(calls) : calls[i].svc = svc}

\* C1: when extract_youtube_id finds no identifier in video_url, the response of
\* POST /api/youtube/summarize has status 400, not a 500-class status.
C1_UnresolvableUrlGets400 ==
    (Done /\ Summarizing /\ ~extract_youtube_id(request.video_url).found)
        => (Len(responses) = 1 /\ responses[1].status_code = 400)

When(cond, text) == IF cond THEN {text} ELSE {}

\* the issue tracker's answer to the POST, when there was one
Answered == CreatingTicket /\ calls # <<>> /\ calls[1].ok
Status == calls[1].answer.status_code
BodyKind == calls[1].answer.body.kind

\* the texts of the failures raised inside the handler body for this request
FailureTexts ==
    When(Summarizing /\ ~extract_youtube_id(request.video_url).found,
         <<"Invalid YouTube URL">>)
    \cup {Str(calls[i].answer) :
            i \in {j \in 1..Len(calls) : calls[j].svc # "metadata" /\ ~calls[j].ok}}
    \cup {<<"list index out of range">> :
            i \in {j \in CallsTo("completion") : calls[j].ok /\ calls[j].answer = <<>>}}
    \cup When(CreatingTicket /\ ~IsAscii(request.jira_settings.username),
              <<"'ascii' codec can't encode character: ordinal not in range(128)">>)
    \cup When(Answered /\ Status # 201 /\ BodyKind # "text",
              <<"Failed to create Jira ticket: ">>)
    \cup When(Answered /\ (BodyKind = "text" \/ (BodyKind = "empty" /\ Status = 201)),
              <<"Expecting value: line 1 column 1 (char 0)">>)
    \cup When(Answered /\ Status = 201 /\ BodyKind = "array",
              <<"'list' object has no attribute 'get'">>)

\* C2: in each of the seven POST handlers a failure raised inside the handler body
\* ends the request with exactly one response, of status 500, whose detail contains
\* the text of the failure; a request without a failure ends with one success
\* response; no request ends with no response or with more than one.
C2_FailureIsOne500WithText ==
    /\ ~Done => responses = <<>>
    /\ Done =>
        /\ Len(responses) = 1
        /\ IF FailureTexts = {}
           THEN responses[1].status_code = 200
           ELSE /\ responses[1].status_code = 500
                /\ \A t \in FailureTexts : Contains(responses[1].detail, t)

\* a request whose completion call failed has ended with its one 500 response
C2_Witness ==
    /\ Done
    /\ FailureTexts # {}
    /\ responses[1].status_code = 500
    /\ \E i \in CallsTo("completion") : ~calls[i].ok

\* C3: in create_jira_ticket_in_instance, a response of the issue tracker whose
\* status is not 201 makes the call fail with a message that includes the status
\* code, whatever the body; no ticket URL is returned.
C3_Non201FailsWithStatusCode ==
    (Done /\ Answered /\ Status # 201)
        => /\ responses[1].status_code = 500
           /\ Contains(responses[1].detail, <<ToString(Status)>>)

\* C4: in POST /api/youtube/summarize a failed metadata fetch does not end the
\* request; when the transcript fetch and the completion call succeed, the
\* response is a success with a result and the placeholder video_details.
C4_MetadataFailureIsDowngraded ==
    (Summarizing /\ calls # <<>> /\ ~calls[1].ok) =>
        /\ Len(calls) = 1 => (pc = "transcript" /\ responses = <<>>)
        /\ (Done /\ Len(calls) = 3 /\ calls[2].ok /\ calls[3].ok
                 /\ calls[3].answer # <<>>)
             => /\ responses[1].status_code = 200
                /\ responses[1].body.result = calls[3].answer[1]
                /\ responses[1].body.video_details.title = "YouTube Video"
                /\ responses[1].body.video_details.author = "Unknown"

C4_Witness ==
    /\ Done /\ Summarizing /\ Len(calls) = 3
    /\ calls[1].svc = "metadata" /\ ~calls[1].ok
    /\ calls[2].ok /\ calls[3].ok
    /\ responses[1].status_code = 200
    /\ responses[1].body.video_details.author = "Unknown"

\* C5: while one request is handled each external collaborator is invoked at most
\* once, whether the invocation succeeds or fails, and a failed completion,
\* transcript or issue-tracker call is the last outbound call of the request.
C5_NoRetry ==
    /\ \A svc \in {"completion", "transcript", "metadata", "jira"} :
          Cardinality(CallsTo(svc)) <= 1
    /\ \A i \in 1..Len(calls) :
          (~calls[i].ok /\ calls[i].svc # "metadata") => i = Len(calls)

C5_Witness ==
    /\ Done /\ Len(calls) = 3
    /\ calls[3].svc = "completion" /\ ~calls[3].ok

\* the prompt of the completion call of this request
Prompt == calls[Len(calls)].prompt
Completing == calls # <<>> /\ calls[Len(calls)].svc = "completion"

\* C6: every template lookup returns the table's entry for a key of the table and
\* the documented default for any other key, and never raises (the handler goes
\* on to its outbound call); ticket type "bug" gives issue type "Bug" and an
\* unrecognized ticket type gives "Task".
C6_TemplateSelectionTotal ==
    /\ (Done /\ request.endpoint = "/api/social/generate") =>
        /\ Completing
        /\ Prompt[2] =
             IF request.platform \in {"linkedin", "twitter", "youtube", "instagram"}
             THEN platform_guides[request.platform]
             ELSE "professional post for LinkedIn that includes bullet points, some emojis, and relevant hashtags"
        /\ Prompt[4] =
             IF request.writing_style \in
                  {"professional", "casual", "inspirational", "educational",
                   "humorous", "thought-provoking"}
             THEN style_guides[request.writing_style]
             ELSE "in a formal, business-oriented tone"
    /\ (Done /\ request.endpoint = "/api/jira/generate") =>
        /\ Completing
        /\ Prompt[2] =
             IF request.ticket_type \in
                  {"epic", "story", "task", "bug", "improvement", "feature"}
             THEN ticket_prompts[request.ticket_type]
             ELSE "Create a clear Task description with specific steps, requirements, and deliverables"
    /\ (Done /\ CreatingTicket /\ IsAscii(request.jira_settings.username)) =>
        /\ calls # <<>>
        /\ calls[1].data.issuetype =
             IF request.ticket_type \in
                  {"epic", "story", "task", "bug", "improvement", "feature"}
             THEN jira_issue_types[request.ticket_type]
             ELSE "Task"
        /\ request.ticket_type = "bug" => calls[1].data.issuetype = "Bug"
    /\ (Done /\ request.endpoint = "/api/communication/generate") =>
        /\ Completing
        /\ Prompt[1] =
             IF request.content_type \in
                  {"meeting-agenda", "meeting-description", "slack-message"}
             THEN content_prompts[request.content_type]
             ELSE "Create professional communication content"
        /\ Prompt[3] =
             IF request.tone \in {"professional", "casual", "friendly", "urgent",
                                  "informative", "collaborative"}
             THEN tone_guidelines[request.tone]
             ELSE "using appropriate professional language"
        /\ Prompt[5] =
             IF request.style \in {"concise", "detailed", "bullet-points",
                                   "structured", "action-oriented"}
             THEN style_guidelines[request.style]
             ELSE "with clear formatting"
    /\ (Done /\ request.endpoint = "/api/transcript/analyze") => Completing
    /\ (Completing /\ request.endpoint \in {"/api/youtube/summarize",
                                             "/api/transcript/analyze"}) =>
        /\ request.output_type = "summary" =>
             Prompt[1] = "Summarize the main points of this YouTube video titled '"
        /\ request.output_type = "notes" =>
             Prompt[1] = "Create detailed notes in bullet point format from this YouTube video titled '"
        /\ request.output_type = "explanation" =>
             Prompt[1] = "Explain the content of this YouTube video titled '"
        /\ request.output_type = "questions" =>
             Prompt[1] = "Generate important questions and answers based on the content of this YouTube video titled '"
        /\ request.output_type \notin
             {"summary", "notes", "explanation", "questions", "custom"} =>
             Prompt[1] = "Analyze the content of this YouTube video titled '"

\* a ticket of an unrecognized type has been posted as a "Task"
C6_Witness ==
    /\ Done /\ CreatingTicket /\ request.ticket_type = "chore"
    /\ calls # <<>> /\ calls[1].data.issuetype = "Task"

HasNoTrailingSlash(url) == url # <<>> /\ url[Len(url)] # "/"

\* C7: when the issue tracker answers 201 with a body holding the issue key K and
\* jira_url is B without a trailing slash, the call returns B + "/browse/" + K and
\* the POST went to B + "/rest/api/3/issue".
C7_CreatedTicketUrl ==
    (Done /\ Answered /\ Status = 201 /\ BodyKind = "object"
          /\ "key" \in DOMAIN calls[1].answer.body.fields
          /\ HasNoTrailingSlash(request.jira_settings.jira_url))
        => /\ responses[1].status_code = 200
           /\ responses[1].body.ticket_url =
                request.jira_settings.jira_url
                \o <<"/browse/", calls[1].answer.body.fields.key>>
           /\ calls[1].url = request.jira_settings.jira_url \o <<"/rest/api/3/issue">>

C7_Witness ==
    /\ Done /\ Answered /\ Status = 201
    /\ request.jira_settings.jira_url = <<"https://x.atlassian.net">>
    /\ responses[1].status_code = 200
    /\ responses[1].body.ticket_url = <<"https://x.atlassian.net", "/browse/", "PROJ-42">>

\* the fragments that end the lead of a transcript prompt
TranscriptMarkers ==
    {"'. Transcript:\n\n", "'\nTranscript:\n\n",
     "' in simple terms that are easy to understand. Transcript:\n\n"}

\* what follows the lead in a transcript prompt
TranscriptPart(prompt) ==
    LET marks == {i \in 1..Len(prompt) : prompt[i] \in TranscriptMarkers}
        first == CHOOSE i \in marks : \A j \in marks : i <= j
    IN  SubSeq(prompt, first + 1, Len(prompt))

\* the transcript handed to generate_content_from_transcript
GivenTranscript == IF Summarizing THEN transcript ELSE request.transcript

\* C8: for every transcript and output type, the transcript part of the prompt
\* sent to the completion endpoint is the first 4000 characters of the transcript
\* when it is longer than 4000 characters, and the whole transcript otherwise.
C8_TranscriptTruncated ==
    (Completing /\ request.endpoint \in {"/api/youtube/summarize",
                                         "/api/transcript/analyze"})
        => /\ TranscriptPart(Prompt) =
                IF Len(GivenTranscript) > 4000
                THEN SubSeq(GivenTranscript, 1, 4000)
                ELSE GivenTranscript
           /\ Len(TranscriptPart(Prompt)) <= 4000

\* a custom prompt with a transcript of more than 4000 characters was sent
C8_Witness ==
    /\ Completing /\ request.endpoint = "/api/transcript/analyze"
    /\ request.output_type = "custom" /\ Truthy(request.custom_prompt)
    /\ Len(request.transcript) > 4000
    /\ Len(TranscriptPart(Prompt)) = 4000

Prefixes == {Https, Https \o Www}
PlainIds == TextsUpTo(IdChars, MaxIdLen) \ {<<>>}

\* the accepted shapes: what precedes the identifier, and what ends it
Shapes ==
    { [lit |-> LitWatch, ends |-> {"&", "?"}], [lit |-> LitShort, ends |-> {"&", "?"}],
      [lit |-> LitEmbed, ends |-> {"/", "?"}], [lit |-> LitV, ends |-> {"/", "?"}] }

\* the shape occurs in url with at least one character of an identifier
Occurs(shape, url) ==
    \E p \in 1..Len(url) :
        /\ LitAt(shape.lit, url, p)
        /\ p + Len(shape.lit) <= Len(url)
        /\ url[p + Len(shape.lit)] \notin shape.ends

Extracted == Summarizing /\ pc # "extract"

\* C9: extract_youtube_id tries the shapes in a fixed order and returns what the
\* first shape that matches captures: a watch, a youtu.be, an embed and a /v/ URL
\* with the same identifier all resolve to it, the watch/youtu.be shape wins over
\* the embed shape wherever they occur, and a URL of no shape resolves to None.
C9_UrlResolution ==
    Extracted =>
        /\ \A pre \in Prefixes, id \in PlainIds :
             /\ \A lit \in {LitWatch, LitShort, LitEmbed, LitV} :
                   request.video_url = pre \o lit \o id
                       => video_id = [found |-> TRUE, id |-> id]
             /\ request.video_url = pre \o LitEmbed \o id \o <<"?","u","=">> \o LitShort \o <<"z">>
                   => video_id = [found |-> TRUE, id |-> <<"z">>]
             /\ request.video_url = pre \o LitWatch \o id \o <<"&","u","=">> \o LitEmbed \o <<"z">>
                   => video_id = [found |-> TRUE, id |-> id]
        /\ (\E sh \in Shapes : Occurs(sh, request.video_url))
             <=> (video_id.found /\ video_id.id # <<>>)
        /\ (\A sh \in Shapes : ~Occurs(sh, request.video_url))
             => (Done /\ ~video_id.found)

\* an embed URL whose query names a youtu.be URL resolved to the latter's identifier
C9_Witness ==
    /\ pc = "details"
    /\ request.video_url =
         Https \o LitEmbed \o <<"a">> \o <<"?","u","=">> \o LitShort \o <<"z">>
    /\ video_id = [found |-> TRUE, id |-> <<"z">>]

StepOrder == <<"metadata", "transcript", "completion">>

\* C10: in POST /api/youtube/summarize the steps run in the order resolve,
\* metadata fetch, transcript fetch, completion call; an unresolved URL makes no
\* outbound call; a failed transcript fetch ends the request with a server error
\* carrying its message and without a completion call; the completion endpoint is
\* called only after a successful transcript fetch; the outcome of the metadata
\* fetch gates nothing.
C10_SummarizeStepOrder ==
    Summarizing =>
        /\ Len(calls) <= 3
        /\ \A i \in 1..Len(calls) : calls[i].svc = StepOrder[i]
        /\ pc = "extract" => calls = <<>>
        /\ calls # <<>> =>
             (video_id.found /\ video_id = extract_youtube_id(request.video_url))
        /\ (Done /\ ~extract_youtube_id(request.video_url).found) => calls = <<>>
        /\ Len(calls) = 3 => calls[2].ok
        /\ (Len(calls) >= 2 /\ ~calls[2].ok) =>
             /\ Done /\ Len(calls) = 2
             /\ responses[1].status_code = 500
             /\ Contains(responses[1].detail,
                         <<"Failed to get transcript: ">> \o Str(calls[2].answer))
        /\ (Done /\ calls # <<>>) => Len(calls) >= 2
        /\ (Done /\ Len(calls) >= 2 /\ calls[2].ok) => Len(calls) = 3

\* both the metadata fetch and the transcript fetch failed
C10_Witness ==
    /\ Done /\ Summarizing /\ Len(calls) = 2
    /\ ~calls[1].ok /\ ~calls[2].ok
    /\ responses[1].status_code = 500

\* the prompt opens with the custom prompt text, followed by the title line
LeadsWithCustom(prompt, custom_prompt) ==
    /\ Len(prompt) > Len(custom_prompt.val)
    /\ SubSeq(prompt, 1, Len(custom_prompt.val)) = custom_prompt.val
    /\ prompt[Len(custom_prompt.val) + 1] = "\n\nVideo Title: '"

\* C11: in generate_content_from_transcript the custom prompt text leads the
\* prompt if and only if output_type is "custom" and a non-empty custom prompt was
\* supplied; "custom" without one gets the generic analyze fragment, and summary,
\* notes, explanation and questions get their canned fragment whatever the
\* custom prompt.
C11_CustomPromptLead ==
    (Completing /\ request.endpoint \in {"/api/youtube/summarize",
                                         "/api/transcript/analyze"}) =>
        /\ LeadsWithCustom(Prompt, request.custom_prompt)
             <=> (/\ request.output_type = "custom"
                  /\ request.custom_prompt.present
                  /\ request.custom_prompt.val # <<>>)
        /\ (request.output_type = "custom" /\ ~LeadsWithCustom(Prompt, request.custom_prompt))
             => Prompt[1] = "Analyze the content of this YouTube video titled '"
        /\ request.output_type = "summary" =>
             Prompt[1] = "Summarize the main points of this YouTube video titled '"
        /\ request.output_type = "notes" =>
             Prompt[1] = "Create detailed notes in bullet point format from this YouTube video titled '"
        /\ request.output_type = "explanation" =>
             Prompt[1] = "Explain the content of this YouTube video titled '"
        /\ request.output_type = "questions" =>
             Prompt[1] = "Generate important questions and answers based on the content of this YouTube video titled '"
        /\ (request.output_type # "custom" /\ request.custom_prompt.val # <<>>)
             => ~Contains(Prompt, request.custom_prompt.val)

\* a custom request with a custom prompt was sent with that prompt as its lead
C11_Witness ==
    /\ Completing /\ request.endpoint = "/api/transcript/analyze"
    /\ request.output_type = "custom"
    /\ request.custom_prompt = Some(<<"Focus on the key dates">>)
    /\ Prompt[1] = "Focus on the key dates"
    /\ Prompt[2] = "\n\nVideo Title: '"

\* a summary request that supplied a custom prompt was sent the canned fragment
C11_WitnessIgnored ==
    /\ Completing /\ request.output_type = "summary"
    /\ request.custom_prompt = Some(<<"Focus on the key dates">>)
    /\ Prompt[1] = "Summarize the main points of this YouTube video titled '"

=============================================================================
